---- MODULE Spec2Model ----
(***************************************************************************)
(* A state-machine model of pylivetrader's Algorithm orchestrator          *)
(* (src/pylivetrader/algorithm.py): construction and backend resolution,   *)
(* the run()/initialize lifecycle, the event list, the clock, the          *)
(* Portfolio/Account caches and the order family.                          *)
(*                                                                         *)
(* A Python exception is modelled as the outcome of the call: the variable *)
(* `last` records, for the most recent call on the orchestrator, the       *)
(* operation, the exception it ended with ("none" when it returned), the   *)
(* exception's detail and the returned value.                              *)
(***************************************************************************)
EXTENDS Integers, Sequences, FiniteSets, TLC

\* ------------------------------------------------------------------ bounds

\* User events that may be registered after construction.
MaxEvents == 2
\* Invocations of the user initializer (a raising initializer is retried by
\* the next run()).
MaxInitCalls == 2
\* Simulated days 1..MaxDay.
MaxDay == 2
\* Held positions range over 1..MaxShares shares.
MaxShares == 1
\* order_target's targets range over -MaxTarget..MaxTarget shares.
MaxTarget == 2
\* The backend's order book holds orders with ids among 1..MaxOrders.
MaxOrders == 2
\* 0.0001, the tolerance of round_if_near_integer and tolerant_equals, in
\* units of the fixed-point grid on which amounts and prices are kept.
Epsilon == 10

\* ------------------------------------------------------------ value domains

None == "None"

DataFrequencies == {"minute", "daily", "hourly"}

\* Backend names: a first-party module pylivetrader.backend.<name>, a module
\* importable only from the global namespace, and a name importable nowhere.
FirstPartyBackends == {"alpaca"}
GlobalBackends == {"thirdparty"}
BackendNames == FirstPartyBackends \cup GlobalBackends \cup {"nosuch"}
BackendOptions == {"empty", "custom"}

\* The sids the backend knows.
Sids == {1, 2}

Funcs == {"f1", "f2"}
CustomRules == {[kind |-> "custom"]}
DateRules == {None, "every_day"}
TimeRules == {None, "AfterOpen"}
HalfDays == {TRUE}
Calendars == {None, "US_EQUITIES", "US_FUTURES", "OTHER"}

Days == 1..MaxDay

\* A Portfolio snapshot: the positions, keyed by the sids that are held.
Portfolios ==
    UNION {[positions : [held -> 1..MaxShares]] : held \in SUBSET Sids}
EmptyPortfolio == [positions |-> <<>>]

\* Account snapshots are opaque to the orchestrator.
Accounts == {"acct0", "acct1"}

\* One share, and one unit of price, on the fixed-point grid.
Scale == 10000 * Epsilon

\* An optional argument is <<>> when absent (Python's None) and <<v>> when
\* given.
Absent == <<>>
Dates == {Absent} \cup {<<d>> : d \in Days}

\* Asset records as the asset finder resolves them, and an argument that is
\* not an Asset (a bare ticker string).
\* Sid 1 never auto-closes; sid 2 auto-closes on day 1, either before its
\* end date or after it.
Assets ==
    {[kind |-> "Asset", sid |-> 1, end_date |-> MaxDay,
      auto_close_date |-> Absent],
     [kind |-> "Asset", sid |-> 2, end_date |-> MaxDay,
      auto_close_date |-> <<1>>],
     [kind |-> "Asset", sid |-> 2, end_date |-> 1,
      auto_close_date |-> <<MaxDay>>]}
NonAsset == [kind |-> "str"]
AssetArgs == Assets \cup {NonAsset}

\* finance.execution: the four execution styles.
MarketOrder == [kind |-> "Market"]
LimitOrder(limit_price) == [kind |-> "Limit", limit |-> limit_price]
StopOrder(stop_price) == [kind |-> "Stop", stop |-> stop_price]
StopLimitOrder(limit_price, stop_price) ==
    [kind |-> "StopLimit", limit |-> limit_price, stop |-> stop_price]

\* An optional limit or stop price: not given, 0, or 1.
Prices == {Absent, <<0>>, <<1>>}

\* (limit_price, stop_price, style) arguments of the order family: every
\* combination of prices without a style, a style alone, and a style
\* together with a price.
StyleArgs ==
    {<<limit_price, stop_price, Absent>> :
         limit_price \in Prices, stop_price \in Prices}
    \cup {<<Absent, Absent, <<LimitOrder(1)>> >>,
          <<<<1>>, Absent, <<MarketOrder>> >>}

\* Amounts passed to order(), on the grid: 0, 2, 3.99999, 4.00001, 3.9998,
\* 5.5 and the negatives of the fractional ones.
OrderAmounts ==
    {0, 2 * Scale, 4 * Scale - 1, 4 * Scale + 1, 4 * Scale - 2 * Epsilon,
     5 * Scale + Scale \div 2,
     -(4 * Scale - 1), -(4 * Scale - 2 * Epsilon),
     -(5 * Scale + Scale \div 2)}

Targets == (-MaxTarget)..MaxTarget

\* The style arguments the sizing calls are exercised with.
SizingStyleArgs == {<<Absent, Absent, Absent>>, <<<<1>>, Absent, Absent>>}

\* Notional values passed to order_value(), on the grid.
OrderValues == {Scale, -Scale}

\* The data portal's last price of an asset, on the grid: 0.00001 and 1.
LastPrices == {1, Scale}

\* What backend.order answers: no order, or an Order with this id.
BackendReplies == {Absent, <<"order-id">>}

\* The backend's order book (self._backend.orders): Order records by id.
OrderIds == 1..MaxOrders
OrderBooks ==
    UNION {[ids -> [asset : Sids, open : BOOLEAN]] : ids \in SUBSET OrderIds}

\* get_open_orders' asset argument: not given, or the Asset with this sid.
OpenOrdersArgs == {Absent} \cup {<<sid>> : sid \in Sids}

\* batch_market_order's share_counts: a mapping of assets to signed counts.
ShareCounts ==
    UNION {[held -> (-MaxShares)..MaxShares] : held \in SUBSET Sids}

VARIABLES
    phase,                  \* "new" | "failed" | "idle" | "initialize" |
                            \* "executing" | "before_trading_start"
    data_frequency,         \* self.data_frequency
    backend,                \* self._backend
    events,                 \* self.event_manager's event sequence
    initialized,            \* self.initialized
    assets_from_source,     \* self._assets_from_source
    executor,               \* self.executor: None until run() builds it
    active_algo,            \* the api_context's "active algorithm" slot
    init_calls,             \* invocations of the user initializer so far
    init_raises,            \* how many of them raised
    run_called,             \* run() has been called at least once
    registered,             \* the callbacks registered by users, in call order
    datetime,               \* self.datetime as a day number; <<>> until first set
    portfolio_needs_update, \* self._portfolio_needs_update
    account_needs_update,   \* self._account_needs_update
    cached_portfolio,       \* self._portfolio; <<>> while the attribute is unset
    cached_account,         \* self._account; <<>> while the attribute is unset
    backend_portfolio,      \* what self._backend.portfolio returns now
    backend_account,        \* what self._backend.account returns now
    portfolio_fetches,      \* backend.portfolio accesses since the last
                            \* on_dt_changed (or since construction)
    account_fetches,        \* the same for backend.account
    served_portfolio,       \* the snapshot backend.portfolio last handed out
    served_account,         \* the snapshot backend.account last handed out
    order_calls,            \* the backend.order and backend.batch_order calls
                            \* made by the last call
    in_before_trading_start, \* self._in_before_trading_start; <<>> while
                            \* the attribute is unset
    non_market_minutes,     \* the bar-data view is under the adjustment of
                            \* handle_non_market_minutes
    last                    \* the most recent call and its outcome

vars == <<phase, data_frequency, backend, events, initialized,
          assets_from_source, executor, active_algo, init_calls, init_raises,
          run_called, registered, datetime, portfolio_needs_update,
          account_needs_update, cached_portfolio, cached_account,
          backend_portfolio, backend_account, portfolio_fetches,
          account_fetches, served_portfolio, served_account, order_calls,
          in_before_trading_start, non_market_minutes, last>>

preMarketVars == <<in_before_trading_start, non_market_minutes>>
lifecycleVars == <<phase, initialized, assets_from_source, executor,
                   active_algo, init_calls, init_raises, run_called,
                   preMarketVars>>
configVars == <<data_frequency, backend>>
eventVars == <<events, registered>>
cacheVars == <<portfolio_needs_update, account_needs_update, cached_portfolio,
               cached_account, portfolio_fetches, account_fetches,
               served_portfolio, served_account>>
backendVars == <<backend_portfolio, backend_account>>
tradingVars == <<datetime, cacheVars, backendVars, order_calls>>

Call(op, exc, detail, ret) ==
    [op |-> op, exc |-> exc, detail |-> detail, ret |-> ret, args |-> None]

\* A call of the order family, with what it was called on.
OrderCall(op, args, out) ==
    [op |-> op, exc |-> out.exc, detail |-> out.detail, ret |-> out.ret,
     args |-> args]

Constructed ==
    phase \in {"idle", "initialize", "executing", "before_trading_start"}

\* ------------------------------------------------- misc.events (EventManager)

\* events.Always(): triggers at every instant.
Always == [kind |-> "Always"]

\* Lines 76-83: the per-bar event built by __init__.
AlwaysEvent == [rule |-> Always, callback |-> "handle_data"]

\* EventManager.add_event(event, prepend=False)
EventManager_add_event(evs, event, prepend) ==
    IF prepend THEN <<event>> \o evs ELSE Append(evs, event)

\* ------------------------------------------- misc.api_context (LiveTraderAPI)

LiveTraderAPI_enter == "algo"
LiveTraderAPI_exit == None

\* ------------------------------------------------------------ construction

Init ==
    /\ phase = "new"
    /\ data_frequency = None
    /\ backend = [module |-> None, options |-> None]
    /\ events = <<>>
    /\ initialized = FALSE
    /\ assets_from_source = {}
    /\ executor = None
    /\ active_algo = None
    /\ init_calls = 0
    /\ init_raises = 0
    /\ run_called = FALSE
    /\ registered = <<>>
    /\ datetime = <<>>
    /\ portfolio_needs_update = FALSE
    /\ account_needs_update = FALSE
    /\ cached_portfolio = <<>>
    /\ cached_account = <<>>
    /\ backend_portfolio = EmptyPortfolio
    /\ backend_account = "acct0"
    /\ portfolio_fetches = 0
    /\ account_fetches = 0
    /\ served_portfolio = <<>>
    /\ served_account = <<>>
    /\ order_calls = <<>>
    /\ in_before_trading_start = <<>>
    /\ non_market_minutes = FALSE
    /\ last = Call("none", "none", None, None)

\* Lines 48-59: the module is looked up first as pylivetrader.backend.<name>,
\* then in the global namespace; `options` on line 56 is bound nowhere.
ResolveBackend(name) ==
    IF name \in FirstPartyBackends
    THEN [exc |-> "none", detail |-> name]
    ELSE IF name \in GlobalBackends
    THEN [exc |-> "NameError", detail |-> "options"]
    ELSE [exc |-> "RuntimeError", detail |-> name]

CtorArgs(freq, name, opts) ==
    [data_frequency |-> freq, backend |-> name, backend_options |-> opts]

CtorCall(ctor_args, exc, detail) ==
    [Call("__init__", exc, detail, None) EXCEPT !.args = ctor_args]

ConstructFails(ctor_args, exc, detail) ==
    /\ phase' = "failed"
    /\ last' = CtorCall(ctor_args, exc, detail)
    /\ UNCHANGED <<data_frequency, backend, events, initialized,
                   assets_from_source, executor, active_algo, init_calls,
                   init_raises, run_called, registered, tradingVars,
                   preMarketVars>>

\* Algorithm.__init__(data_frequency=freq, backend=name, backend_options=opts)
Construct(freq, name, opts) ==
    /\ phase \in {"new", "failed"}
    /\ IF freq \notin {"minute", "daily"}
       THEN ConstructFails(CtorArgs(freq, name, opts), "AssertionError", None)
       ELSE LET r == ResolveBackend(name) IN
            IF r.exc # "none"
            THEN ConstructFails(CtorArgs(freq, name, opts), r.exc, r.detail)
            ELSE /\ phase' = "idle"
                 /\ data_frequency' = freq
                 /\ backend' = [module |-> r.detail, options |-> opts]
                 /\ events' = EventManager_add_event(<<>>, AlwaysEvent, TRUE)
                 /\ initialized' = FALSE
                 /\ assets_from_source' = {}
                 /\ portfolio_needs_update' = TRUE
                 /\ account_needs_update' = TRUE
                 /\ last' = CtorCall(CtorArgs(freq, name, opts), "none", None)
                 /\ UNCHANGED <<executor, active_algo, init_calls, init_raises,
                                run_called, registered, datetime,
                                cached_portfolio, cached_account,
                                portfolio_fetches, account_fetches,
                                served_portfolio, served_account, backendVars,
                                order_calls, preMarketVars>>

\* ---------------------------------------------------------------- lifecycle

\* run() without the `if not self.initialized` guard of line 117.
Run_always_initialize ==
    /\ phase = "idle"
    /\ run_called' = TRUE
    /\ assets_from_source' = Sids
    /\ init_calls < MaxInitCalls
    /\ init_calls' = init_calls + 1
    /\ active_algo' = LiveTraderAPI_enter
    /\ phase' = "initialize"
    /\ last' = Call("run", "running", "initialize entered", None)
    /\ UNCHANGED <<executor, initialized, init_raises>>
    /\ UNCHANGED <<configVars, eventVars, tradingVars, preMarketVars>>

\* run() with lines 121-125 moved before line 117: the driver is built
\* before initialize is entered.
Run_builds_executor_first ==
    /\ phase = "idle"
    /\ run_called' = TRUE
    /\ assets_from_source' = Sids
    /\ executor' = "AlgorithmExecutor"
    /\ IF ~initialized
       THEN /\ init_calls < MaxInitCalls
            /\ init_calls' = init_calls + 1
            /\ active_algo' = LiveTraderAPI_enter
            /\ phase' = "initialize"
       ELSE /\ phase' = "executing"
            /\ UNCHANGED <<init_calls, active_algo>>
    /\ last' = Call("run", "running",
                    IF initialized THEN "initialize skipped"
                    ELSE "initialize entered", None)
    /\ UNCHANGED <<initialized, init_raises>>
    /\ UNCHANGED <<configVars, eventVars, tradingVars, preMarketVars>>

\* Algorithm.run, lines 114-118: the universe is materialized, then the user
\* initializer is entered inside the LiveTraderAPI scope unless the
\* orchestrator is already initialized; an initialized orchestrator goes
\* straight to lines 121-127.
Run ==
    /\ phase = "idle"
    /\ run_called' = TRUE
    /\ assets_from_source' = Sids
    /\ IF ~initialized
       THEN /\ init_calls < MaxInitCalls
            /\ init_calls' = init_calls + 1
            /\ active_algo' = LiveTraderAPI_enter
            /\ phase' = "initialize"
            /\ UNCHANGED executor
       ELSE /\ executor' = "AlgorithmExecutor"
            /\ phase' = "executing"
            /\ UNCHANGED <<init_calls, active_algo>>
    /\ last' = Call("run", "running",
                    IF initialized THEN "initialize skipped"
                    ELSE "initialize entered", None)
    /\ UNCHANGED <<initialized, init_raises>>
    /\ UNCHANGED <<configVars, eventVars, tradingVars, preMarketVars>>

\* The user initializer returns: the `with` block of line 93 exits, then
\* lines 119-127 run.
InitializeReturn ==
    /\ phase = "initialize"
    /\ active_algo' = LiveTraderAPI_exit
    /\ initialized' = TRUE
    /\ executor' = "AlgorithmExecutor"
    /\ phase' = "executing"
    /\ last' = Call("run", "running", "initialize returned", None)
    /\ UNCHANGED <<assets_from_source, init_calls, init_raises, run_called>>
    /\ UNCHANGED <<configVars, eventVars, tradingVars, preMarketVars>>

\* initialize() with the scope entered and left by hand, without `with`:
\* a raising initializer skips the exit.
InitializeRaise_scope_kept ==
    /\ phase = "initialize"
    /\ init_raises' = init_raises + 1
    /\ phase' = "idle"
    /\ last' = Call("run", "InitializerError", None, None)
    /\ UNCHANGED <<active_algo, initialized, assets_from_source, executor,
                   init_calls, run_called>>
    /\ UNCHANGED <<configVars, eventVars, tradingVars, preMarketVars>>

\* run() with line 119 moved before line 118: the flag is set before the
\* initializer is called, and stays set when it raises.
InitializeRaise_marks_initialized ==
    /\ phase = "initialize"
    /\ active_algo' = LiveTraderAPI_exit
    /\ init_raises' = init_raises + 1
    /\ initialized' = TRUE
    /\ phase' = "idle"
    /\ last' = Call("run", "InitializerError", None, None)
    /\ UNCHANGED <<assets_from_source, executor, init_calls, run_called>>
    /\ UNCHANGED <<configVars, eventVars, tradingVars, preMarketVars>>

\* The user initializer raises: the `with` block of line 93 exits and the
\* exception leaves initialize() and run(); lines 119-127 do not run.
InitializeRaise ==
    /\ phase = "initialize"
    /\ active_algo' = LiveTraderAPI_exit
    /\ init_raises' = init_raises + 1
    /\ phase' = "idle"
    /\ last' = Call("run", "InitializerError", None, None)
    /\ UNCHANGED <<initialized, assets_from_source, executor, init_calls,
                   run_called>>
    /\ UNCHANGED <<configVars, eventVars, tradingVars, preMarketVars>>

\* Line 127: executor.run() ends, returning or raising, and so does run().
ExecutorExit(exc) ==
    /\ phase = "executing"
    /\ phase' = "idle"
    /\ last' = Call("run", exc, None,
                    IF exc = "none" THEN "executor.run()" ELSE None)
    /\ UNCHANGED <<initialized, assets_from_source, executor, active_algo,
                   init_calls, init_raises, run_called>>
    /\ UNCHANGED <<configVars, eventVars, tradingVars, preMarketVars>>

\* --------------------------------------------------------------- pre-market

\* data.bardata.handle_non_market_minutes(data): entering the scope puts the
\* bar-data view under the adjustment, leaving it (by return or by
\* exception) lifts the adjustment.
handle_non_market_minutes_enter == TRUE
handle_non_market_minutes_exit == FALSE

\* What self._before_trading_start holds: None, or the user's callback (noop
\* when none was given).
PreMarketCallbacks == {None, "callback"}

\* A before_trading_start call, with the callback it found.
PreMarketCall(callback, exc, detail) ==
    [Call("before_trading_start", exc, detail, None) EXCEPT !.args = callback]

\* Algorithm.before_trading_start(data), lines 100-108, up to the callback.
\* With no callback the call returns on line 102. Otherwise line 104 sets
\* the flag and line 106 picks the scope: in minute mode
\* handle_non_market_minutes(data), inside which the callback is entered; in
\* any other mode ExitStack(), a name bound nowhere in the module, so that
\* evaluating it raises NameError.
before_trading_start(callback) ==
    /\ phase = "executing"
    /\ IF callback = None
       THEN /\ last' = PreMarketCall(callback, "none", "no callback")
            /\ UNCHANGED <<phase, preMarketVars>>
       ELSE /\ in_before_trading_start' = <<TRUE>>
            /\ IF data_frequency = "minute"
               THEN /\ non_market_minutes' = handle_non_market_minutes_enter
                    /\ phase' = "before_trading_start"
                    /\ last' = PreMarketCall(callback, "running",
                                             "callback entered")
               ELSE /\ last' = PreMarketCall(callback, "NameError",
                                             "ExitStack")
                    /\ UNCHANGED <<phase, non_market_minutes>>
    /\ UNCHANGED <<initialized, assets_from_source, executor, active_algo,
                   init_calls, init_raises, run_called>>
    /\ UNCHANGED <<configVars, eventVars, tradingVars>>

\* The pre-market callback returns: the `with` block of lines 106-108 exits
\* and line 110 clears the flag.
PreMarketReturn ==
    /\ phase = "before_trading_start"
    /\ non_market_minutes' = handle_non_market_minutes_exit
    /\ in_before_trading_start' = <<FALSE>>
    /\ phase' = "executing"
    /\ last' = PreMarketCall("callback", "none", "callback returned")
    /\ UNCHANGED <<initialized, assets_from_source, executor, active_algo,
                   init_calls, init_raises, run_called>>
    /\ UNCHANGED <<configVars, eventVars, tradingVars>>

\* The pre-market callback raises: the `with` block exits and the exception
\* leaves before_trading_start; line 110 does not run.
PreMarketRaise ==
    /\ phase = "before_trading_start"
    /\ non_market_minutes' = handle_non_market_minutes_exit
    /\ phase' = "executing"
    /\ last' = PreMarketCall("callback", "CallbackError", "callback raised")
    /\ UNCHANGED <<in_before_trading_start, initialized, assets_from_source,
                   executor, active_algo, init_calls, init_raises, run_called>>
    /\ UNCHANGED <<configVars, eventVars, tradingVars>>

\* --------------------------------------------------------------- scheduling

\* add_event passing prepend=True, as __init__ does for the per-bar event.
AddEventTo_prepend(evs, rule, callback) ==
    EventManager_add_event(evs, [rule |-> rule, callback |-> callback], TRUE)

\* Algorithm.add_event(rule, callback), lines 159-163.
AddEventTo(evs, rule, callback) ==
    EventManager_add_event(evs, [rule |-> rule, callback |-> callback], FALSE)

add_event(rule, callback) ==
    /\ Constructed
    /\ Len(events) < 1 + MaxEvents
    /\ events' = AddEventTo(events, rule, callback)
    /\ registered' = Append(registered, callback)
    /\ last' = Call("add_event", "none", None, None)
    /\ UNCHANGED <<lifecycleVars, configVars, tradingVars>>

\* misc.events.make_eventrule(date_rule, time_rule, cal, half_days)
make_eventrule(date_rule, time_rule, cal, half_days) ==
    [kind |-> "composite", date |-> date_rule, time |-> time_rule,
     cal |-> cal, half_days |-> half_days]

\* Lines 202-206.
ResolveDateRule(date_rule) ==
    IF date_rule = None THEN "every_day" ELSE date_rule

\* Lines 203-206 without the frequency test: the explicit time rule is kept
\* in daily mode too.
ResolveTimeRule_keeps_explicit(freq, time_rule) ==
    IF time_rule = None THEN "every_minute" ELSE time_rule

ResolveTimeRule(freq, time_rule) ==
    IF freq = "minute"
    THEN (IF time_rule = None THEN "every_minute" ELSE time_rule)
    ELSE "every_minute"

\* Lines 211-223: ScheduleFunctionInvalidCalendar is not among the names
\* imported on lines 14-16, so evaluating line 218 raises NameError.
ResolveCalendar(calendar) ==
    CASE calendar = None -> [exc |-> "none", cal |-> "trading_calendar"]
      [] calendar = "US_EQUITIES" -> [exc |-> "none", cal |-> "NYSE"]
      [] calendar = "US_FUTURES" -> [exc |-> "none", cal |-> "us_futures"]
      [] OTHER -> [exc |-> "NameError",
                   cal |-> "ScheduleFunctionInvalidCalendar"]

\* A schedule_function call, with what it was called on.
ScheduleCall(func, date_rule, time_rule, calendar, exc, detail) ==
    [Call("schedule_function", exc, detail, calendar) EXCEPT
         !.args = [func |-> func, date_rule |-> date_rule,
                   time_rule |-> time_rule]]

\* Algorithm.schedule_function, lines 165-228.
schedule_function(func, date_rule, time_rule, half_days, calendar) ==
    /\ Constructed
    /\ LET dr == ResolveDateRule(date_rule)
           tr == ResolveTimeRule(data_frequency, time_rule)
           c == ResolveCalendar(calendar)
       IN  IF c.exc # "none"
           THEN /\ last' = ScheduleCall(func, date_rule, time_rule, calendar,
                                        c.exc, c.cal)
                /\ UNCHANGED eventVars
           ELSE /\ Len(events) < 1 + MaxEvents
                /\ events' = AddEventTo(
                       events, make_eventrule(dr, tr, c.cal, half_days), func)
                /\ registered' = Append(registered, func)
                /\ last' = ScheduleCall(func, date_rule, time_rule, calendar,
                                        "none", None)
    /\ UNCHANGED <<lifecycleVars, configVars, tradingVars>>

\* The instants of a session at which a bar may fall, and misc.events' time
\* rules: every_minute triggers at every instant of a session, AfterOpen at
\* the one instant its offset names.
SessionInstants == {"open", "after_open", "close"}

time_rule_triggers(time_rule, instant) ==
    \/ time_rule = "every_minute"
    \/ time_rule = "AfterOpen" /\ instant = "after_open"

\* The indices 1..n of a sequence that lie in `keep`, in sequence order.
RECURSIVE PickSeq(_, _, _)
PickSeq(seq, keep, i) ==
    IF i > Len(seq) THEN <<>>
    ELSE (IF i \in keep THEN <<seq[i].callback>> ELSE <<>>)
         \o PickSeq(seq, keep, i + 1)

\* misc.events: EventManager.handle_data at one instant. Every event whose
\* rule triggers has its callback invoked, in sequence order; Always
\* triggers at every instant, a user rule at the instants `matching` names.
EventManager_handle_data(evs, matching) ==
    PickSeq(evs,
            {i \in 1..Len(evs) : evs[i].rule.kind = "Always" \/ i \in matching},
            1)

\* The executor dispatches the events of one bar.
DispatchEvents(matching) ==
    /\ phase = "executing"
    /\ last' = Call("handle_events", "none", None,
                    EventManager_handle_data(events, matching))
    /\ UNCHANGED <<lifecycleVars, configVars, eventVars, tradingVars>>

\* ------------------------------------------------------- clock and caches

\* on_dt_changed without line 331: the Account cache is not invalidated.
on_dt_changed_portfolio_only(dt) ==
    /\ Constructed
    /\ portfolio_needs_update' = TRUE
    /\ datetime' = <<dt>>
    /\ portfolio_fetches' = 0
    /\ account_fetches' = 0
    /\ order_calls' = <<>>
    /\ last' = [Call("on_dt_changed", "none", None, None) EXCEPT !.args = dt]
    /\ UNCHANGED <<account_needs_update, cached_portfolio, cached_account,
                   served_portfolio, served_account, backendVars>>
    /\ UNCHANGED <<lifecycleVars, configVars, eventVars>>

\* on_dt_changed without line 332: the instant is not stored.
on_dt_changed_keeps_datetime(dt) ==
    /\ Constructed
    /\ portfolio_needs_update' = TRUE
    /\ account_needs_update' = TRUE
    /\ portfolio_fetches' = 0
    /\ account_fetches' = 0
    /\ order_calls' = <<>>
    /\ last' = [Call("on_dt_changed", "none", None, None) EXCEPT !.args = dt]
    /\ UNCHANGED <<datetime, cached_portfolio, cached_account,
                   served_portfolio, served_account, backendVars>>
    /\ UNCHANGED <<lifecycleVars, configVars, eventVars>>

\* Algorithm.on_dt_changed(dt), lines 329-332. The instants 1..MaxDay are
\* UTC-anchored, as the assert of line 337 requires of self.datetime.
on_dt_changed(dt) ==
    /\ Constructed
    /\ portfolio_needs_update' = TRUE
    /\ account_needs_update' = TRUE
    /\ datetime' = <<dt>>
    /\ portfolio_fetches' = 0
    /\ account_fetches' = 0
    /\ order_calls' = <<>>
    /\ last' = [Call("on_dt_changed", "none", None, None) EXCEPT !.args = dt]
    /\ UNCHANGED <<cached_portfolio, cached_account, served_portfolio,
                   served_account, backendVars>>
    /\ UNCHANGED <<lifecycleVars, configVars, eventVars>>

\* get_datetime's tz argument: not given, or a timezone to convert to.
Timezones == {Absent, <<"US/Eastern">>}

\* Algorithm.get_datetime(tz), lines 334-340: self.datetime exists only once
\* on_dt_changed has run; astimezone keeps the instant and changes the zone
\* it is expressed in.
get_datetime_outcome(tz) ==
    IF datetime = Absent
    THEN [exc |-> "AttributeError", detail |-> "datetime", ret |-> None,
          calls |-> <<>>]
    ELSE [exc |-> "none", detail |-> None, calls |-> <<>>,
          ret |-> IF tz = Absent THEN datetime[1]
                  ELSE [instant |-> datetime[1], tz |-> tz[1]]]

get_datetime(tz) ==
    /\ Constructed
    /\ order_calls' = <<>>
    /\ LET out == get_datetime_outcome(tz) IN
           last' = [Call("get_datetime", out.exc, out.detail, out.ret)
                        EXCEPT !.args = tz]
    /\ UNCHANGED <<datetime, cacheVars, backendVars>>
    /\ UNCHANGED <<lifecycleVars, configVars, eventVars>>

\* A getter without lines 316 and 323: the flag is never cleared, so every
\* read goes to the backend.
CacheGet_keeps_flag(needs_update, cache, backend_value) ==
    IF needs_update
    THEN [fetched |-> TRUE, cache |-> <<backend_value>>,
          needs_update |-> needs_update]
    ELSE [fetched |-> FALSE, cache |-> cache, needs_update |-> needs_update]

\* The property getters, lines 312-317 and 319-324: what a read leaves in
\* the cache and the flag, and whether it went to the backend.
CacheGet(needs_update, cache, backend_value) ==
    IF needs_update
    THEN [fetched |-> TRUE, cache |-> <<backend_value>>, needs_update |-> FALSE]
    ELSE [fetched |-> FALSE, cache |-> cache, needs_update |-> needs_update]

\* self.portfolio as evaluated in the current state.
PortfolioGet ==
    CacheGet(portfolio_needs_update, cached_portfolio, backend_portfolio)

\* self.account as evaluated in the current state.
AccountGet ==
    CacheGet(account_needs_update, cached_account, backend_account)

\* The effect of evaluating self.portfolio on the state.
PortfolioEffect(g) ==
    /\ cached_portfolio' = g.cache
    /\ portfolio_needs_update' = g.needs_update
    /\ portfolio_fetches' = portfolio_fetches + (IF g.fetched THEN 1 ELSE 0)
    /\ served_portfolio' =
           IF g.fetched THEN <<backend_portfolio>> ELSE served_portfolio

\* A read of the `portfolio` property.
portfolio ==
    /\ Constructed
    /\ LET g == PortfolioGet IN
           /\ PortfolioEffect(g)
           /\ last' = Call("portfolio", "none", None, g.cache[1])
    /\ order_calls' = <<>>
    /\ UNCHANGED <<datetime, account_needs_update, cached_account,
                   account_fetches, served_account, backendVars>>
    /\ UNCHANGED <<lifecycleVars, configVars, eventVars>>

\* A read of the `account` property.
account ==
    /\ Constructed
    /\ LET g == AccountGet IN
           /\ cached_account' = g.cache
           /\ account_needs_update' = g.needs_update
           /\ account_fetches' = account_fetches + (IF g.fetched THEN 1 ELSE 0)
           /\ served_account' =
                  IF g.fetched THEN <<backend_account>> ELSE served_account
           /\ last' = Call("account", "none", None, g.cache[1])
    /\ order_calls' = <<>>
    /\ UNCHANGED <<datetime, portfolio_needs_update, cached_portfolio,
                   portfolio_fetches, served_portfolio, backendVars>>
    /\ UNCHANGED <<lifecycleVars, configVars, eventVars>>

\* The brokerage's positions change (a fill, a transfer); `last` notes it
\* as the most recent event.
BackendPortfolioChange(p) ==
    /\ Constructed
    /\ p # backend_portfolio
    /\ backend_portfolio' = p
    /\ last' = Call("backend_change", "none", None, None)
    /\ UNCHANGED <<backend_account, datetime, cacheVars, order_calls>>
    /\ UNCHANGED <<lifecycleVars, configVars, eventVars>>

\* The brokerage's account state changes.
BackendAccountChange(a) ==
    /\ Constructed
    /\ a # backend_account
    /\ backend_account' = a
    /\ last' = Call("backend_change", "none", None, None)
    /\ UNCHANGED <<backend_portfolio, datetime, cacheVars, order_calls>>
    /\ UNCHANGED <<lifecycleVars, configVars, eventVars>>

\* ------------------------------------------------------------- order family

Raises(exc, detail) ==
    [exc |-> exc, detail |-> detail, ret |-> None, calls |-> <<>>]
Returns(ret, calls) ==
    [exc |-> "none", detail |-> None, ret |-> ret, calls |-> calls]

Min(a, b) == IF a <= b THEN a ELSE b
Abs(a) == IF a >= 0 THEN a ELSE -a

\* misc.math_utils.round_if_near_integer(a, epsilon=0.0001) on the grid.
Nearest(a) ==
    IF a >= 0 THEN ((a + Scale \div 2) \div Scale) * Scale
    ELSE -(((-a + Scale \div 2) \div Scale) * Scale)

round_if_near_integer(a) ==
    IF Abs(a - Nearest(a)) <= Epsilon THEN Nearest(a) ELSE a

\* misc.math_utils.tolerant_equals(a, b, atol=0.0001, rtol=0) on the grid.
tolerant_equals(a, b) == Abs(a - b) <= Epsilon

\* round_order as a bare int(amount), without round_if_near_integer.
round_order_truncates(amount) ==
    IF amount >= 0 THEN amount \div Scale ELSE -((-amount) \div Scale)

\* Algorithm.round_order, lines 491-501: int() truncates toward zero.
round_order(amount) ==
    LET r == round_if_near_integer(amount) IN
        IF r >= 0 THEN r \div Scale ELSE -((-r) \div Scale)

\* Python truthiness of an optional price: None and 0 are false.
Truthy(price) == price # Absent /\ price[1] # 0

\* Algorithm.__convert_order_params_for_blotter, lines 503-522.
convert_order_params_for_blotter(limit_price, stop_price, style) ==
    IF style # Absent
    THEN (IF limit_price = Absent /\ stop_price = Absent
          THEN Returns(style[1], <<>>)
          ELSE Raises("AssertionError", None))
    ELSE IF Truthy(limit_price) /\ Truthy(stop_price)
    THEN Returns(StopLimitOrder(limit_price[1], stop_price[1]), <<>>)
    ELSE IF Truthy(limit_price)
    THEN Returns(LimitOrder(limit_price[1]), <<>>)
    ELSE IF Truthy(stop_price)
    THEN Returns(StopOrder(stop_price[1]), <<>>)
    ELSE Returns(MarketOrder, <<>>)

\* Algorithm._can_order_asset, lines 568-588. get_datetime() on line 577
\* reads self.datetime, which exists only once on_dt_changed has run; `log`
\* on line 583 is bound nowhere in the module.
can_order_asset(asset) ==
    IF asset.kind # "Asset"
    THEN Raises("UnsupportedOrderParameters", None)
    ELSE IF asset.auto_close_date # Absent
    THEN (IF datetime = Absent
          THEN Raises("AttributeError", "datetime")
          ELSE IF datetime[1] > Min(asset.end_date, asset.auto_close_date[1])
          THEN Raises("NameError", "log")
          ELSE Returns(TRUE, <<>>))
    ELSE Returns(TRUE, <<>>)

\* Algorithm.order, lines 148-157, with _calculate_order, lines 473-489:
\* the outcome of the call and the backend.order calls it makes. `reply` is
\* what the backend answers.
order_outcome(asset, amount, limit_price, stop_price, style, reply) ==
    LET c == can_order_asset(asset) IN
    IF c.exc # "none" THEN c
    ELSE IF ~c.ret THEN Returns(Absent, <<>>)
    ELSE LET st == convert_order_params_for_blotter(
                       limit_price, stop_price, style)
         IN  IF st.exc # "none" THEN st
             ELSE Returns(reply,
                          <<[sid |-> asset.sid,
                             amount |-> round_order(amount),
                             style |-> st.ret]>>)

\* Whether the tradability rule of lines 576-579 excludes the asset today.
PastAutoClose(asset) ==
    /\ asset.kind = "Asset"
    /\ asset.auto_close_date # Absent
    /\ datetime # Absent
    /\ \/ datetime[1] > asset.end_date
       \/ datetime[1] > asset.auto_close_date[1]

\* Whether the asset is one the rule lets through: a resolved Asset that
\* has no auto-close date, or whose auto-close and end dates have not
\* passed.
Orderable(asset) ==
    /\ asset.kind = "Asset"
    /\ \/ asset.auto_close_date = Absent
       \/ /\ datetime # Absent
          /\ datetime[1] <= asset.end_date
          /\ datetime[1] <= asset.auto_close_date[1]

\* What a call of the order family was called on.
OrderArgs(asset, value) ==
    [sid |-> IF asset.kind = "Asset" THEN asset.sid ELSE 0,
     orderable |-> Orderable(asset),
     past_auto_close |-> PastAutoClose(asset),
     value |-> value,
     can_trade |-> TRUE,
     zero_price |-> FALSE,
     limit_price |-> None,
     stop_price |-> None,
     style |-> None,
     reply |-> None]

\* order() with `self._portfolio_needs_update = True` after the backend
\* call: placing an order invalidates the Portfolio cache.
order_invalidates_portfolio(asset, amount, limit_price, stop_price, style, reply) ==
    /\ Constructed
    /\ LET out == order_outcome(asset, amount, limit_price, stop_price, style,
                                reply)
       IN  /\ order_calls' = out.calls
           /\ portfolio_needs_update' =
                  (portfolio_needs_update \/ Len(out.calls) > 0)
           /\ last' = OrderCall(
                  "order",
                  [OrderArgs(asset, amount) EXCEPT
                       !.limit_price = limit_price,
                       !.stop_price = stop_price,
                       !.style = style,
                       !.reply = reply],
                  out)
    /\ UNCHANGED <<datetime, account_needs_update, cached_portfolio,
                   cached_account, portfolio_fetches, account_fetches,
                   served_portfolio, served_account, backendVars>>
    /\ UNCHANGED <<lifecycleVars, configVars, eventVars>>

\* order(asset, amount, limit_price, stop_price, style)
order(asset, amount, limit_price, stop_price, style, reply) ==
    /\ Constructed
    /\ LET out == order_outcome(asset, amount, limit_price, stop_price, style,
                                reply)
       IN  /\ order_calls' = out.calls
           /\ last' = OrderCall(
                  "order",
                  [OrderArgs(asset, amount) EXCEPT
                       !.limit_price = limit_price,
                       !.stop_price = stop_price,
                       !.style = style,
                       !.reply = reply],
                  out)
    /\ UNCHANGED <<datetime, cacheVars, backendVars>>
    /\ UNCHANGED <<lifecycleVars, configVars, eventVars>>

\* Algorithm._calculate_order_value_amount, lines 532-551. self.executor
\* exists only once run() has built it; `last_price` on line 542 is bound
\* nowhere, so the lines after it are never reached.
calculate_order_value_amount(asset, value, can_trade) ==
    IF executor = None
    THEN Raises("AttributeError", "executor")
    ELSE IF ~can_trade
    THEN Raises("CannotOrderDelistedAsset", None)
    ELSE Raises("NameError", "last_price")

\* Algorithm.order_value, lines 297-306.
order_value_outcome(asset, value, limit_price, stop_price, style, can_trade, reply) ==
    LET c == can_order_asset(asset) IN
    IF c.exc # "none" THEN c
    ELSE IF ~c.ret THEN Returns(Absent, <<>>)
    ELSE LET a == calculate_order_value_amount(asset, value, can_trade) IN
         IF a.exc # "none" THEN a
         ELSE order_outcome(asset, a.ret, limit_price, stop_price, style,
                            reply)

\* order_value(asset, value, ...). `can_trade` is what the bar-data view
\* answers for the asset and `last_price` the data portal's last price.
order_value(asset, value, limit_price, stop_price, style, can_trade, last_price, reply) ==
    /\ Constructed
    /\ LET out == order_value_outcome(asset, value, limit_price, stop_price,
                                      style, can_trade, reply)
       IN  /\ order_calls' = out.calls
           /\ last' = OrderCall(
                  "order_value",
                  [OrderArgs(asset, value) EXCEPT
                       !.can_trade = can_trade,
                       !.zero_price = tolerant_equals(last_price, 0)],
                  out)
    /\ UNCHANGED <<datetime, cacheVars, backendVars>>
    /\ UNCHANGED <<lifecycleVars, configVars, eventVars>>

\* _calculate_order_target_amount without lines 558-560: the held position
\* is not subtracted.
calculate_order_target_amount_ignores_position(positions, sid, target) ==
    target

\* Algorithm._calculate_order_target_amount, lines 557-562, in whole shares.
calculate_order_target_amount(positions, sid, target) ==
    IF sid \in DOMAIN positions THEN target - positions[sid] ELSE target

\* Algorithm.order_target, lines 373-382. The sizing step reads
\* self.portfolio, which may fetch.
order_target(asset, target, limit_price, stop_price, style, reply) ==
    /\ Constructed
    /\ LET c == can_order_asset(asset)
           g == PortfolioGet
       IN  IF c.exc # "none" \/ ~c.ret
           THEN /\ order_calls' = <<>>
                /\ last' = OrderCall(
                       "order_target", OrderArgs(asset, target),
                       IF c.exc # "none" THEN c ELSE Returns(Absent, <<>>))
                /\ UNCHANGED <<portfolio_needs_update, cached_portfolio,
                               portfolio_fetches, served_portfolio>>
           ELSE LET amount == calculate_order_target_amount(
                                  g.cache[1].positions, asset.sid, target)
                    out == order_outcome(asset, amount * Scale, limit_price,
                                         stop_price, style, reply)
                IN  /\ PortfolioEffect(g)
                    /\ order_calls' = out.calls
                    /\ last' = OrderCall(
                           "order_target", OrderArgs(asset, target), out)
    /\ UNCHANGED <<datetime, account_needs_update, cached_account,
                   account_fetches, served_account, backendVars>>
    /\ UNCHANGED <<lifecycleVars, configVars, eventVars>>

\* ------------------------------------------------------ order book, batches

\* A call, with what it was called on.
CallOn(op, args, out) ==
    [op |-> op, exc |-> out.exc, detail |-> out.detail, ret |-> out.ret,
     args |-> args]

\* Algorithm.get_open_orders, lines 417-434. The comprehension of lines
\* 427-434 iterates `for asset in assets`, a variable of its own scope: the
\* `asset` argument is read nowhere.
get_open_orders_outcome(asset, orders) ==
    LET assets == {orders[id].asset :
                       id \in {i \in DOMAIN orders : orders[i].open}}
    IN  Returns([a \in assets |->
                    {id \in DOMAIN orders :
                         orders[id].asset = a /\ orders[id].open}],
                <<>>)

\* get_open_orders(asset), `orders` being what self._backend.orders returns.
get_open_orders(asset, orders) ==
    /\ Constructed
    /\ order_calls' = <<>>
    /\ last' = CallOn("get_open_orders", [asset |-> asset, orders |-> orders],
                      get_open_orders_outcome(asset, orders))
    /\ UNCHANGED <<datetime, cacheVars, backendVars>>
    /\ UNCHANGED <<lifecycleVars, configVars, eventVars>>

\* cancel_order's argument: an order id, or an Order carrying one.
CancelArgs == [kind : {"id", "Order"}, id : OrderIds]

\* Algorithm.cancel_order, lines 442-447: the backend is asked to cancel the
\* order with the id given, or with the id of the Order given.
cancel_order(order_param) ==
    /\ Constructed
    /\ order_calls' = <<[cancel_order |-> order_param.id]>>
    /\ last' = CallOn("cancel_order", order_param, Returns(None, <<>>))
    /\ UNCHANGED <<datetime, cacheVars, backendVars>>
    /\ UNCHANGED <<lifecycleVars, configVars, eventVars>>

\* Algorithm.batch_market_order, lines 407-415: `iteritems` on line 412 is
\* neither imported nor a builtin, so building the list raises NameError
\* before line 415 is reached.
batch_market_order_outcome(share_counts) ==
    Raises("NameError", "iteritems")

\* batch_market_order(share_counts)
batch_market_order(share_counts) ==
    /\ Constructed
    /\ LET out == batch_market_order_outcome(share_counts) IN
           /\ order_calls' = out.calls
           /\ last' = CallOn("batch_market_order", share_counts, out)
    /\ UNCHANGED <<datetime, cacheVars, backendVars>>
    /\ UNCHANGED <<lifecycleVars, configVars, eventVars>>

\* --------------------------------------------------------------------- next

Next ==
    \/ \E freq \in DataFrequencies, name \in BackendNames,
          opts \in BackendOptions :
           Construct(freq, name, opts)
    \/ Run
    \/ InitializeReturn
    \/ InitializeRaise
    \/ \E exc \in {"none", "ExecutorError"} : ExecutorExit(exc)
    \/ \E rule \in CustomRules, callback \in Funcs : add_event(rule, callback)
    \/ \E func \in Funcs, date_rule \in DateRules, time_rule \in TimeRules,
          half_days \in HalfDays, calendar \in Calendars :
           schedule_function(func, date_rule, time_rule, half_days, calendar)
    \/ \E matching \in SUBSET (1..(1 + MaxEvents)) : DispatchEvents(matching)

Spec == Init /\ [][Next]_vars

\* The clock, the two caches and the brokerage behind them.
NextCache ==
    \/ \E name \in BackendNames : Construct("minute", name, "empty")
    \/ \E dt \in Days : on_dt_changed(dt)
    \/ portfolio
    \/ account
    \/ \E p \in Portfolios : BackendPortfolioChange(p)
    \/ \E a \in Accounts : BackendAccountChange(a)

SpecCache == Init /\ [][NextCache]_vars

\* order and order_value over the clock, before and after run() has built
\* the executor.
NextOrders ==
    \/ \E name \in BackendNames : Construct("minute", name, "empty")
    \/ Run
    \/ InitializeReturn
    \/ \E dt \in Days : on_dt_changed(dt)
    \/ \E asset \in AssetArgs, amount \in OrderAmounts, a \in SizingStyleArgs,
          reply \in BackendReplies :
           order(asset, amount, a[1], a[2], a[3], reply)
    \/ \E asset \in AssetArgs, a \in StyleArgs, reply \in BackendReplies :
           order(asset, 2 * Scale, a[1], a[2], a[3], reply)
    \/ \E asset \in AssetArgs, value \in OrderValues, a \in SizingStyleArgs,
          can_trade \in BOOLEAN, last_price \in LastPrices,
          reply \in BackendReplies :
           order_value(asset, value, a[1], a[2], a[3], can_trade, last_price,
                       reply)

SpecOrders == Init /\ [][NextOrders]_vars

\* order_target over the clock, the Portfolio cache and the brokerage.
NextTarget ==
    \/ \E name \in BackendNames : Construct("minute", name, "empty")
    \/ \E dt \in Days : on_dt_changed(dt)
    \/ portfolio
    \/ \E p \in Portfolios : BackendPortfolioChange(p)
    \/ \E asset \in AssetArgs, target \in Targets, a \in SizingStyleArgs,
          reply \in BackendReplies :
           order_target(asset, target, a[1], a[2], a[3], reply)

SpecTarget == Init /\ [][NextTarget]_vars

\* The calls that go to the backend's order book, over the clock.
NextBook ==
    \/ \E name \in BackendNames : Construct("minute", name, "empty")
    \/ \E dt \in Days : on_dt_changed(dt)
    \/ \E asset \in OpenOrdersArgs, orders \in OrderBooks :
           get_open_orders(asset, orders)
    \/ \E share_counts \in ShareCounts : batch_market_order(share_counts)

SpecBook == Init /\ [][NextBook]_vars

\* The clock among the other operations of the orchestrator, each with one
\* choice of its other arguments.
NextClock ==
    \/ Construct("minute", "alpaca", "empty")
    \/ Run
    \/ InitializeReturn
    \/ \E dt \in Days : on_dt_changed(dt)
    \/ \E tz \in Timezones : get_datetime(tz)
    \/ \E asset \in AssetArgs :
           order(asset, 2 * Scale, Absent, Absent, Absent, <<"order-id">>)
    \/ \E asset \in AssetArgs :
           order_value(asset, Scale, Absent, Absent, Absent, TRUE, Scale,
                       <<"order-id">>)
    \/ \E asset \in AssetArgs :
           order_target(asset, 1, Absent, Absent, Absent, <<"order-id">>)
    \/ portfolio
    \/ account
    \/ schedule_function("f1", None, None, TRUE, None)
    \/ \E rule \in CustomRules : add_event(rule, "f1")
    \/ \E order_param \in CancelArgs : cancel_order(order_param)
    \/ \E asset \in OpenOrdersArgs : get_open_orders(asset, <<>>)

SpecClock == Init /\ [][NextClock]_vars

\* run() and the pre-market callback, in both data frequencies.
NextPreMarket ==
    \/ \E freq \in DataFrequencies, name \in BackendNames,
          opts \in BackendOptions :
           Construct(freq, name, opts)
    \/ Run
    \/ InitializeReturn
    \/ InitializeRaise
    \/ \E exc \in {"none", "ExecutorError"} : ExecutorExit(exc)
    \/ \E dt \in Days : on_dt_changed(dt)
    \/ \E callback \in PreMarketCallbacks : before_trading_start(callback)
    \/ PreMarketReturn
    \/ PreMarketRaise

SpecPreMarket == Init /\ [][NextPreMarket]_vars

\* The order family over both caches, the clock and a brokerage whose
\* positions change as orders fill.
NextFrame ==
    \/ Construct("minute", "alpaca", "empty")
    \/ \E dt \in Days : on_dt_changed(dt)
    \/ portfolio
    \/ account
    \/ \E p \in Portfolios : BackendPortfolioChange(p)
    \/ \E asset \in AssetArgs :
           order(asset, 2 * Scale, Absent, Absent, Absent, <<"order-id">>)
    \/ \E asset \in AssetArgs :
           order_value(asset, Scale, Absent, Absent, Absent, TRUE, Scale,
                       <<"order-id">>)
    \/ \E asset \in AssetArgs, target \in Targets :
           order_target(asset, target, Absent, Absent, Absent, <<"order-id">>)

SpecFrame == Init /\ [][NextFrame]_vars

\* ------------------------------------------------------------------ claims

\* C1: between two consecutive on_dt_changed calls the backend portfolio is
\* fetched at most once, on the first read of the interval, and every
\* portfolio read of the interval returns the snapshot that fetch handed
\* out, whatever the backend's portfolio has become since.
C1_PortfolioFetchedOncePerBar ==
    /\ portfolio_fetches <= 1
    /\ last.op = "portfolio" =>
           /\ portfolio_fetches = 1
           /\ served_portfolio # Absent
           /\ last.ret = served_portfolio[1]

\* C1 witness: a read that follows a change of the backend's portfolio
\* within the bar and still returns the snapshot fetched before the change.
C1_Witness ==
    /\ last.op = "portfolio"
    /\ datetime # Absent
    /\ portfolio_fetches = 1
    /\ last.ret # backend_portfolio

\* C2: on_dt_changed invalidates both caches, and a portfolio or account
\* read never returns a snapshot fetched before the most recent
\* on_dt_changed: the snapshot it returns was fetched since then (or since
\* construction, for the reads before the first on_dt_changed).
C2_ReadsNeverStaleAcrossBars ==
    /\ last.op = "on_dt_changed" =>
           portfolio_needs_update /\ account_needs_update
    /\ Constructed =>
           /\ portfolio_fetches = 0 => portfolio_needs_update
           /\ account_fetches = 0 => account_needs_update
    /\ last.op = "portfolio" =>
           /\ portfolio_fetches >= 1
           /\ last.ret = served_portfolio[1]
    /\ last.op = "account" =>
           /\ account_fetches >= 1
           /\ last.ret = served_account[1]

\* C2 witness: an account read after a clock advance that returns the
\* backend's account as it is now, the cache of the bar before holding the
\* older one.
C2_Witness ==
    /\ last.op = "account"
    /\ datetime # Absent
    /\ account_fetches = 1
    /\ last.ret = "acct1"
    /\ last.ret = backend_account
    /\ cached_portfolio # Absent
    /\ portfolio_needs_update

\* C3: the per-bar Always/handle_data event is the first event of the event
\* manager's sequence and the user events follow it in registration order;
\* so whenever events are dispatched the per-bar handler runs first.
C3_PerBarHandlerFirst ==
    /\ Constructed =>
           /\ Len(events) = 1 + Len(registered)
           /\ events[1] = AlwaysEvent
           /\ \A i \in 1..Len(registered) :
                  /\ events[i + 1].callback = registered[i]
                  /\ events[i + 1].rule.kind # "Always"
    /\ last.op = "handle_events" =>
           /\ Len(last.ret) >= 1
           /\ last.ret[1] = "handle_data"
           /\ \A i \in 2..Len(last.ret) : last.ret[i] # "handle_data"

\* C3 witness: a dispatch at an instant where the per-bar handler and two
\* user functions, registered f2 first, all match.
C3_Witness ==
    /\ last.op = "handle_events"
    /\ registered = <<"f2", "f1">>
    /\ last.ret = <<"handle_data", "f2", "f1">>

\* C4 as stated: over any sequence of one or more run() calls the user
\* initializer is invoked exactly once.
C4_InitializerInvokedExactlyOnce ==
    run_called => init_calls = 1

\* C4 as amended: the initializer is invoked by the first run() and again
\* by a later run() only while every invocation so far has raised; once it
\* has returned normally no run() invokes it again, and if it never raises
\* it is invoked exactly once.
C4_InitializerNotRepeatedAfterSuccess ==
    /\ init_calls <= init_raises + 1
    /\ initialized => init_calls = init_raises + 1
    /\ phase = "initialize" => ~initialized /\ init_calls = init_raises + 1
    /\ run_called => init_calls >= 1
    /\ (run_called /\ init_raises = 0) => init_calls = 1

\* C4 witness: a run() on an orchestrator that a previous run() initialized
\* (after one failed attempt) goes to the executor without re-initializing.
C4_Witness ==
    /\ last.op = "run"
    /\ last.detail = "initialize skipped"
    /\ phase = "executing"
    /\ init_raises = 1
    /\ init_calls = 2

\* C5 as stated: for an asset past min(end_date, auto_close_date), order()
\* returns None without raising and places no backend order, and
\* order_value() raises CannotOrderDelistedAsset.
C5_AutoCloseGating ==
    (last.op \in {"order", "order_value"} /\ last.args.past_auto_close) =>
        IF last.op = "order"
        THEN last.exc = "none" /\ last.ret = Absent /\ order_calls = <<>>
        ELSE last.exc = "CannotOrderDelistedAsset"

\* C6 as stated: for a tradable asset whose last price is tolerantly zero,
\* order_value() (called while the executor runs) returns having computed 0
\* shares and makes no backend.order call.
C6_ZeroPricePlacesNoOrder ==
    (/\ last.op = "order_value"
     /\ executor # None
     /\ last.args.orderable
     /\ last.args.can_trade
     /\ last.args.zero_price) =>
        last.exc = "none" /\ order_calls = <<>>

\* C7: for an orderable asset, order_target(asset, target) makes exactly one
\* backend.order call, for that asset, whose amount is target minus the
\* amount held in the portfolio snapshot, or target when the snapshot holds
\* no position in the asset.
C7_OrderTargetDelta ==
    (last.op = "order_target" /\ last.args.orderable) =>
        /\ last.exc = "none"
        /\ cached_portfolio # Absent
        /\ Len(order_calls) = 1
        /\ order_calls[1].sid = last.args.sid
        /\ LET positions == cached_portfolio[1].positions
               sid == last.args.sid
           IN  order_calls[1].amount =
                   IF sid \in DOMAIN positions
                   THEN last.args.value - positions[sid]
                   ELSE last.args.value

\* C7 witness: holding 1 share of sid 2, order_target(sid 2, 2) orders +1.
C7_Witness ==
    /\ last.op = "order_target"
    /\ last.args.sid = 2
    /\ last.args.value = 2
    /\ cached_portfolio # Absent
    /\ 2 \in DOMAIN cached_portfolio[1].positions
    /\ cached_portfolio[1].positions[2] = 1
    /\ Len(order_calls) = 1
    /\ order_calls[1].amount = 1

\* C8: no algorithm is active outside the initializer: after initialize()
\* has ended, by returning or by the initializer raising, the active
\* algorithm slot is clear.
C8_ScopeClearedAfterInitialize ==
    /\ phase = "initialize" => active_algo = LiveTraderAPI_enter
    /\ phase # "initialize" => active_algo = None

\* C8 witness: the initializer has just raised and no algorithm is active.
C8_Witness ==
    /\ last.op = "run"
    /\ last.exc = "InitializerError"
    /\ init_raises >= 1
    /\ active_algo = None

\* C9 as stated: schedule_function with a calendar that is neither absent
\* nor US_EQUITIES nor US_FUTURES fails with ScheduleFunctionInvalidCalendar,
\* whose detail lists the two sentinels, and registers no event.
C9_InvalidCalendarError ==
    (last.op = "schedule_function"
     /\ last.ret \notin {None, "US_EQUITIES", "US_FUTURES"}) =>
        /\ last.exc = "ScheduleFunctionInvalidCalendar"
        /\ last.detail = "[calendars.US_EQUITIES, calendars.US_FUTURES]"
        /\ Len(events) = 1 + Len(registered)

\* C10 as stated: a backend name found in neither namespace fails
\* construction with an error naming it; a name found only in the global
\* namespace constructs an orchestrator whose backend is that module's
\* Backend built from the backend options.
C10_BackendResolution ==
    (last.op = "__init__"
     /\ last.args.data_frequency \in {"minute", "daily"}) =>
        /\ last.args.backend \notin (FirstPartyBackends \cup GlobalBackends) =>
               /\ last.exc = "RuntimeError"
               /\ last.detail = last.args.backend
               /\ phase = "failed"
        /\ last.args.backend \in GlobalBackends =>
               /\ last.exc = "none"
               /\ phase = "idle"
               /\ backend = [module |-> last.args.backend,
                             options |-> last.args.backend_options]

\* C11: in daily data frequency the event schedule_function registers
\* carries the every-minute time rule whatever time rule was passed, so it
\* triggers at the session's one bar wherever in the session that bar falls;
\* in minute frequency it carries the passed time rule, or every-minute when
\* none was passed.
C11_DailyTimeRuleIgnored ==
    (last.op = "schedule_function" /\ last.exc = "none") =>
        LET ev == events[Len(events)] IN
            /\ ev.callback = last.args.func
            /\ ev.rule.kind = "composite"
            /\ data_frequency = "daily" =>
                   /\ ev.rule.time = "every_minute"
                   /\ \A instant \in SessionInstants :
                          time_rule_triggers(ev.rule.time, instant)
            /\ data_frequency = "minute" =>
                   ev.rule.time = IF last.args.time_rule = None
                                  THEN "every_minute"
                                  ELSE last.args.time_rule

\* C11 witness: in daily mode a function scheduled with an explicit
\* AfterOpen time rule is registered with the every-minute rule.
C11_Witness ==
    /\ last.op = "schedule_function"
    /\ last.exc = "none"
    /\ data_frequency = "daily"
    /\ last.args.time_rule = "AfterOpen"
    /\ events[Len(events)].rule.time = "every_minute"

\* C12 as stated: order() makes at most one backend.order call; on an asset
\* the auto-close rule excludes it returns absent without raising and makes
\* no call; on an asset the rule lets through (the prices being unset when a
\* style is given) it makes exactly one call, with the rounded amount and
\* the resolved style, and returns what the backend answered: the order's
\* id, or absent.
C12_OrderAtMostOneBackendCall ==
    last.op = "order" =>
        /\ Len(order_calls) <= 1
        /\ last.args.past_auto_close =>
               /\ last.exc = "none"
               /\ last.ret = Absent
               /\ order_calls = <<>>
        /\ (/\ last.args.orderable
            /\ last.args.style # Absent =>
                   /\ last.args.limit_price = Absent
                   /\ last.args.stop_price = Absent) =>
               /\ last.exc = "none"
               /\ Len(order_calls) = 1
               /\ order_calls[1].sid = last.args.sid
               /\ order_calls[1].amount = round_order(last.args.value)
               /\ order_calls[1].style =
                      convert_order_params_for_blotter(
                          last.args.limit_price, last.args.stop_price,
                          last.args.style).ret
               /\ last.ret = last.args.reply

\* C13 as stated: with no explicit style, both prices set (0 included)
\* resolve to StopLimit(limit, stop), only limit set to Limit(limit), only
\* stop set to Stop(stop), neither set to Market; an explicit style (the
\* prices being unset) is used as it is.
C13_StyleResolution ==
    (/\ last.op = "order"
     /\ last.args.orderable
     /\ last.args.style # Absent =>
            /\ last.args.limit_price = Absent
            /\ last.args.stop_price = Absent) =>
        /\ last.exc = "none"
        /\ Len(order_calls) = 1
        /\ LET limit_price == last.args.limit_price
               stop_price == last.args.stop_price
               style == last.args.style
           IN  order_calls[1].style =
                   IF style # Absent THEN style[1]
                   ELSE IF limit_price # Absent /\ stop_price # Absent
                   THEN StopLimitOrder(limit_price[1], stop_price[1])
                   ELSE IF limit_price # Absent
                   THEN LimitOrder(limit_price[1])
                   ELSE IF stop_price # Absent
                   THEN StopOrder(stop_price[1])
                   ELSE MarketOrder

\* C14 as stated: get_open_orders() returns a mapping whose keys are exactly
\* the assets with at least one open order, each mapped to all and only its
\* open orders; given an asset argument, the mapping covers that asset only.
C14_OpenOrdersByAsset ==
    last.op = "get_open_orders" =>
        LET orders == last.args.orders
            open == {id \in DOMAIN orders : orders[id].open}
            with_open == {orders[id].asset : id \in open}
            wanted == IF last.args.asset = Absent THEN with_open
                      ELSE with_open \cap {last.args.asset[1]}
        IN  /\ last.exc = "none"
            /\ DOMAIN last.ret = wanted
            /\ \A a \in wanted :
                   last.ret[a] = {id \in open : orders[id].asset = a}

\* C15 as stated: batch_market_order(share_counts) submits exactly one batch
\* to the backend, holding one Market-style tuple per entry with a nonzero
\* amount and none for a zero amount.
C15_BatchMarketOrder ==
    last.op = "batch_market_order" =>
        /\ last.exc = "none"
        /\ Len(order_calls) = 1
        /\ order_calls[1] =
               {[sid |-> sid, amount |-> last.args[sid], style |-> MarketOrder] :
                    sid \in {a \in DOMAIN last.args : last.args[a] # 0}}

\* C16: the amount order() passes to the backend is a whole number of
\* shares: the whole number the given amount lies within 0.0001 of, when
\* there is one, and otherwise the given amount truncated toward zero.
C16_RoundOrder ==
    (last.op = "order" /\ Len(order_calls) = 1) =>
        LET amount == last.args.value
            most == IF amount >= 0 THEN amount \div Scale + 1
                    ELSE (-amount) \div Scale + 1
            whole == (-most)..most
            near == {n \in whole :
                         /\ amount - n * Scale <= Epsilon
                         /\ n * Scale - amount <= Epsilon}
            toward_zero ==
                {n \in whole :
                     \/ amount >= 0 /\ n * Scale <= amount
                                    /\ amount < (n + 1) * Scale
                     \/ amount < 0 /\ amount <= n * Scale
                                   /\ (n - 1) * Scale < amount}
        IN  /\ Cardinality(near) <= 1
            /\ Cardinality(toward_zero) = 1
            /\ order_calls[1].amount \in
                   (IF near # {} THEN near ELSE toward_zero)

\* C16 witness: order(asset, 3.99999) places an order for 4 shares.
C16_Witness ==
    /\ last.op = "order"
    /\ last.args.value = 4 * Scale - 1
    /\ Len(order_calls) = 1
    /\ order_calls[1].amount = 4

C18_PreMarketScope ==
    /\ phase = "before_trading_start" =>
           non_market_minutes = (data_frequency = "minute")
    /\ phase # "before_trading_start" => ~non_market_minutes
    /\ (/\ last.op = "before_trading_start"
        /\ last.args # None
        /\ data_frequency = "daily") =>
           last.exc \in {"running", "none", "CallbackError"}

\* C20 as stated, for minute mode: outside the pre-market callback, and so
\* after before_trading_start has ended on any path, the
\* _in_before_trading_start flag is not true.
C20_PreMarketFlagCleared ==
    (data_frequency = "minute" /\ phase # "before_trading_start") =>
        in_before_trading_start # <<TRUE>>

\* C19 as stated: in every run() the universe is materialized first, then
\* initialize runs, in the first run() only, then the driver is built and
\* started and its result returned.
C19_RunStepOrder ==
    /\ [](phase = "initialize" =>
              assets_from_source = Sids /\ executor = None)
    /\ [](executor # None => initialized)
    /\ [][(phase = "idle" /\ phase' = "initialize") => ~run_called]_vars

\* C19 as amended: in every run() the universe is materialized first; then
\* initialize runs if the orchestrator is not initialized yet, which is the
\* case in the first run() and in any later run() that follows only runs
\* whose initializer raised; then, initialize having returned, the driver is
\* built and started, and run() returns the driver's result. The driver is
\* never built or started before initialize has completed.
C19_RunStepOrderWhileUninitialized ==
    /\ [](/\ phase = "initialize" =>
                 /\ assets_from_source = Sids
                 /\ executor = None
                 /\ ~initialized
          /\ executor # None => initialized /\ assets_from_source = Sids
          /\ phase = "executing" => executor # None)
    /\ [][/\ (phase = "idle" /\ phase' # "idle") =>
                 /\ assets_from_source' = Sids
                 /\ phase' = IF initialized THEN "executing"
                             ELSE "initialize"
          /\ executor' # executor =>
                 /\ phase' = "executing"
                 /\ initialized'
                 /\ phase = "initialize" \/ initialized
          /\ (phase = "executing" /\ phase' = "idle") =>
                 /\ last'.op = "run"
                 /\ last'.exc = "none" => last'.ret = "executor.run()"]_vars

\* C19 witness: a second run(), after a first whose initializer raised, has
\* run initialize again and then built and started the driver.
C19_Witness ==
    /\ last.op = "run"
    /\ last.detail = "initialize returned"
    /\ init_raises = 1
    /\ init_calls = 2
    /\ assets_from_source = Sids
    /\ executor # None
    /\ phase = "executing"

\* C21 as stated: every call of the order family leaves both needs-update
\* flags and both cached snapshots unchanged.
C21_OrdersLeaveCachesUnchanged ==
    [][last'.op \in {"order", "order_value", "order_target"} =>
           UNCHANGED <<portfolio_needs_update, account_needs_update,
                       cached_portfolio, cached_account>>]_vars

\* C21 as amended: no call of the order family invalidates a cache. order
\* and order_value leave both flags and both snapshots unchanged;
\* order_target leaves the Account cache unchanged and never sets the
\* Portfolio flag: on a clean Portfolio cache it leaves flag and snapshot
\* unchanged, on a dirty one its sizing step makes the lazy read, which
\* fetches the snapshot and clears the flag. An order_target(asset, T) on a
\* clean cache therefore submits T minus the position of the snapshot cached
\* before the call, whatever the backend has accepted since the fetch.
C21_OrdersNeverInvalidateCaches ==
    [][/\ last'.op \in {"order", "order_value"} =>
              UNCHANGED <<portfolio_needs_update, account_needs_update,
                          cached_portfolio, cached_account>>
       /\ last'.op = "order_target" =>
              /\ UNCHANGED <<account_needs_update, cached_account>>
              /\ portfolio_needs_update' => portfolio_needs_update
              /\ ~portfolio_needs_update =>
                     UNCHANGED <<portfolio_needs_update, cached_portfolio>>
       /\ (/\ last'.op = "order_target"
           /\ last'.args.orderable
           /\ ~portfolio_needs_update) =>
              /\ Len(order_calls') = 1
              /\ LET positions == cached_portfolio[1].positions
                     sid == last'.args.sid
                 IN  order_calls'[1].amount =
                         IF sid \in DOMAIN positions
                         THEN last'.args.value - positions[sid]
                         ELSE last'.args.value]_vars

\* C21 witness: within a bar whose cached snapshot holds no sid 1, an
\* order_target(sid 1, 1) made when the backend already holds 1 share of
\* sid 1 (an earlier order having filled) still submits +1, the cache
\* staying as fetched.
C21_Witness ==
    /\ last.op = "order_target"
    /\ last.args.sid = 1
    /\ last.args.value = 1
    /\ last.ret = <<"order-id">>
    /\ datetime # Absent
    /\ portfolio_fetches = 1
    /\ ~portfolio_needs_update
    /\ 1 \notin DOMAIN cached_portfolio[1].positions
    /\ 1 \in DOMAIN backend_portfolio.positions
    /\ backend_portfolio.positions[1] = 1
    /\ Len(order_calls) = 1
    /\ order_calls[1].amount = 1

\* C22: initialized becomes true only when the user initializer returns
\* normally. When the initializer raises, initialized stays false, no driver
\* has been built or is built or started by that run(), and run() ends with
\* the initializer's exception.
C22_InitializedOnlyAfterNormalReturn ==
    /\ [](initialized => init_calls > init_raises)
    /\ [][/\ (initialized' /\ ~initialized) =>
                 /\ phase = "initialize"
                 /\ init_raises' = init_raises
                 /\ last'.op = "run"
                 /\ last'.detail = "initialize returned"
          /\ init_raises' # init_raises =>
                 /\ phase = "initialize"
                 /\ ~initialized /\ ~initialized'
                 /\ executor = None /\ executor' = None
                 /\ phase' = "idle"
                 /\ last'.op = "run"
                 /\ last'.exc = "InitializerError"]_vars

\* C22 witness: a run() whose initializer raised has ended with the
\* exception, the orchestrator uninitialized and without a driver.
C22_Witness ==
    /\ last.op = "run"
    /\ last.exc = "InitializerError"
    /\ init_calls = 1
    /\ init_raises = 1
    /\ ~initialized
    /\ executor = None
    /\ phase = "idle"

====
